---- MODULE Spec2Model ----
(***************************************************************************)
(* Haplotype-decay statistics of vcflib: the EHH window engine shared by   *)
(* iHS and meltEHH, the parallel per-site loop of iHS, and the record      *)
(* loops of the three drivers iHS, meltEHH and hapLRT.                     *)
(*                                                                         *)
(* C++ doubles are modelled as exact rationals [n, d] (d > 0, lowest       *)
(* terms) together with the two IEEE values the code can produce from a    *)
(* division by zero, NaN (0/0) and Inf (x/0).  All comparisons the code    *)
(* makes are between values whose exact difference is far above one ulp.   *)
(***************************************************************************)
EXTENDS Integers, Sequences, FiniteSets, TLC

VARIABLES
  drv,          \* which driver runs: "iHS", "meltEHH" or "hapLRT"
  haplotypes,   \* the haplotype matrix: a sequence of [first, second]
  positions,    \* the position series (vector<long int>)
  afs,          \* the frequency series (vector<double>)
  geneticMap,   \* globalOpts.geneticMap: position -> centimorgan
  cs,           \* the integrate call in progress, or Idle
  seqid,        \* the sequence name handed to calc
  threads,      \* globalOpts.threads: the size of the OpenMP team
  wk,           \* per worker: its place in the per-site loop of iHS calc
  nextIter,     \* first iteration of the loop not yet handed to a worker
  lock,         \* the print lock: 0 when free, else the worker holding it
  lockInit,     \* whether omp_init_lock was ever called on the print lock
  computed,     \* per site: what its iteration of the loop computed
  out,          \* standard output: the values written, in order
  exitCode,     \* -1 while the process runs, then its exit code
  pc,           \* main's place: "read" in the record loop, "calc" after it
  cfg,          \* the command line: samples of the file and the groups chosen
  var,          \* the record the loop read last
  nread,        \* records read so far
  nodd,         \* records read so far that were not plain
  mapFile,      \* the lines of the genetic map file, or NoFile
  probe,        \* the last call of a routine made on its own, with its result
  fault         \* whether an element outside a container has been accessed

engineVars == <<drv, haplotypes, positions, afs, geneticMap, seqid>>
calcVars == <<threads, wk, nextIter, lock, lockInit, computed, out, exitCode>>
mainVars == <<pc, cfg, var, nread, nodd>>
mapVars == <<mapFile, probe, fault>>
vars == <<drv, haplotypes, positions, afs, geneticMap, cs, seqid, threads, wk,
          nextIter, lock, lockInit, computed, out, exitCode, pc, cfg, var,
          nread, nodd, mapFile, probe, fault>>

-----------------------------------------------------------------------------
(* Bounds of the model.                                                    *)

\* chromosome-copy pairs (samples) of the matrices the window engine is run on
EhhSamples == 2
\* longest haplotype (number of retained sites) the window engine is run on
EhhMaxLen == 3
\* samples of the matrices iHS calc is run on
CalcSamples == 3
\* longest of the short matrices iHS calc is run on
CalcMaxLen == 2
\* largest OpenMP team
NThreads == 2
\* sites of a long matrix that lie behind its sparse leading sites
TailLen == 2
\* iterations handed to a worker at a time: schedule(dynamic, 20)
ChunkSize == 20

-----------------------------------------------------------------------------
(* Doubles.                                                                *)

\* 0.0/0.0 and x/0.0: the only non-finite doubles the code can produce
NaN == [n |-> 0, d |-> 0]
Inf == [n |-> 1, d |-> 0]

RECURSIVE GCD(_, _)
GCD(a, b) == IF b = 0 THEN a ELSE GCD(b, a % b)

Abs(x) == IF x < 0 THEN -x ELSE x

Min(a, b) == IF a <= b THEN a ELSE b

\* the double n/d, d > 0, in lowest terms
Rat(n, d) ==
  LET g == GCD(Abs(n), d) IN [n |-> n \div g, d |-> d \div g]

\* the double division n/d of two integer-valued doubles, d >= 0
RDiv(n, d) ==
  IF d = 0 THEN (IF n = 0 THEN NaN ELSE Inf) ELSE Rat(n, d)

IsNum(a) == a # NaN /\ a # Inf

\* a > b, a <= b, a < b as the FPU decides them: any comparison with NaN is false
RGt(a, b) ==
  IF a = NaN \/ b = NaN THEN FALSE
  ELSE IF a = Inf THEN b # Inf
  ELSE IF b = Inf THEN FALSE
  ELSE a.n * b.d > b.n * a.d

RLe(a, b) ==
  IF a = NaN \/ b = NaN THEN FALSE
  ELSE IF b = Inf THEN TRUE
  ELSE IF a = Inf THEN FALSE
  ELSE a.n * b.d <= b.n * a.d

RLt(a, b) == RGt(b, a)

RAdd(a, b) ==
  IF a = NaN \/ b = NaN THEN NaN
  ELSE IF a = Inf \/ b = Inf THEN Inf
  ELSE LET l == (a.d \div GCD(a.d, b.d)) * b.d
       IN Rat(a.n * (l \div a.d) + b.n * (l \div b.d), l)

RMul(a, b) ==
  IF a = NaN \/ b = NaN THEN NaN
  ELSE IF a = Inf \/ b = Inf THEN Inf
  ELSE LET g1 == GCD(Abs(a.n), b.d)
           g2 == GCD(Abs(b.n), a.d)
       IN Rat((a.n \div g1) * (b.n \div g2), (a.d \div g2) * (b.d \div g1))

RAbsDiff(a, b) ==
  LET l == (a.d \div GCD(a.d, b.d)) * b.d
  IN Rat(Abs(a.n * (l \div a.d) - b.n * (l \div b.d)), l)

One == Rat(1, 1)
Zero == Rat(0, 1)

-----------------------------------------------------------------------------
(* The EHH window engine (iHS.cpp and meltEHH.cpp share it).               *)

\* pdflib's binomial coefficient C(n, k) as a double; 0 when k > n
r8_choose(n, k) ==
  IF k = 2 THEN (IF n < 2 THEN 0 ELSE (n * (n - 1)) \div 2)
  ELSE IF k = 0 THEN 1 ELSE 0

\* std::string::substr(start, len) on a haplotype (0-based start)
substr(s, start, len) == SubSeq(s, start + 1, Min(start + len, Len(s)))

\* the chromosome copies countHaps walks: (row, copy) for rows 0..nhaps-1
Copies(nhaps) == (1..nhaps) \X {1, 2}

CopyOf(H, ic) == IF ic[2] = 1 THEN H[ic[1]].first ELSE H[ic[1]].second

\* (mutation) only the last site of the window is compared, not the window
countHapsLastSite(nhaps, H, start, end) ==
  LET str(ic) == substr(CopyOf(H, ic), end - 1, 1)
      keys == {str(ic) : ic \in Copies(nhaps)}
  IN [h \in keys |-> Cardinality({ic \in Copies(nhaps) : str(ic) = h})]

\* countHaps: the map from each window substring to its number of occurrences
countHaps(nhaps, H, start, end) ==
  LET str(ic) == substr(CopyOf(H, ic), start, end - start)
      keys == {str(ic) : ic \in Copies(nhaps)}
  IN [h \in keys |-> Cardinality({ic \in Copies(nhaps) : str(ic) = h})]

\* refH["0"] / refH["1"] in calc: operator[] yields 0 for an absent key
MapGet(targetH, key) ==
  IF key \in DOMAIN targetH THEN targetH[key] ELSE 0

RECURSIVE SumChoose(_, _)
SumChoose(targetH, keys) ==
  IF keys = {} THEN 0
  ELSE LET h == CHOOSE x \in keys : TRUE
       IN r8_choose(targetH[h], 2) + SumChoose(targetH, keys \ {h})

\* (mutation) the two directions test each other's end of the substring
BoundaryCharSwapped(h, dir) == IF dir THEN h[Len(h)] ELSE h[1]

\* the character computeNs tests: the first one when the end is extending,
\* the last one when the start is extending
BoundaryChar(h, dir) == IF dir THEN h[1] ELSE h[Len(h)]

\* computeNs: the sum of C(count, 2) over substrings seen at least twice
\* whose boundary character is the anchor allele
computeNs(targetH, ref, dir) ==
  SumChoose(targetH,
            {h \in DOMAIN targetH :
               targetH[h] >= 2 /\ BoundaryChar(h, dir) = ref})

\* (mutation) the pairs are counted over the samples, not over the copies
\* that carry the anchor allele
calcEhhOverSamples(H, start, end, ref, nhaps, div, dir) ==
  LET refH == countHaps(nhaps, H, start, end)
      sum == computeNs(refH, ref, dir)
      internalEHH == RDiv(sum, r8_choose(nhaps, 2))
  IN [fatal |-> RGt(internalEHH, One), ehh |-> internalEHH]

\* calcEhh: fatal is the exit(1) taken when the value exceeds 1, and then
\* nothing is stored through ehh
calcEhh(H, start, end, ref, nhaps, div, dir) ==
  LET refH == countHaps(nhaps, H, start, end)
      sum == computeNs(refH, ref, dir)
      internalEHH == RDiv(sum, r8_choose(div, 2))
  IN [fatal |-> RGt(internalEHH, One), ehh |-> internalEHH]

\* the decay threshold of the driver's integrate loop
Threshold(d) == IF d = "iHS" THEN Rat(5, 100) ELSE Rat(1, 100)

\* (mutation) the return on decay is never taken
DecayedNever(d, ehhRT) == FALSE

\* (mutation) the return on decay is taken while the value is above the
\* threshold
DecayedAbove(d, ehhRT) == RGt(ehhRT, Threshold(d))

\* the test integrate returns 0 on
Decayed(d, ehhRT) == RLe(ehhRT, Threshold(d))

\* pos[i] (0-based): a read past the end of the vector yields g, whatever
\* the memory behind the vector holds
PosAt(pos, i, g) == IF i < Len(pos) THEN pos[i + 1] ELSE g

\* (mutation) a position without an entry sets the distance to 0
gDistZeroed(gm, start, end, gd) ==
  IF start \notin DOMAIN gm \/ end \notin DOMAIN gm
  THEN [ok |-> FALSE, gd |-> Zero]
  ELSE [ok |-> TRUE, gd |-> RAbsDiff(gm[start], gm[end])]

\* gDist: [ok, gd]; gd is left as it was when either position has no entry
gDist(gm, start, end, gd) ==
  IF start \notin DOMAIN gm THEN [ok |-> FALSE, gd |-> gd]
  ELSE IF end \notin DOMAIN gm THEN [ok |-> FALSE, gd |-> gd]
  ELSE [ok |-> TRUE, gd |-> RAbsDiff(gm[start], gm[end])]

\* (mutation) the two values are subscripted without the two lookups first
gDistInsertsUnguarded(gm, start, end) == {start, end} \ DOMAIN gm

\* the keys a call of gDist adds to the map: find adds none, and operator[]
\* (which adds an absent key) is reached only when both keys were found
gDistInserts(gm, start, end) ==
  IF start \notin DOMAIN gm THEN {}
  ELSE IF end \notin DOMAIN gm THEN {}
  ELSE {start, end} \ DOMAIN gm

\* the map after operator[] has added the keys, each with the value 0
WithKeys(gm, keys) ==
  [k \in DOMAIN gm \cup keys |-> IF k \in DOMAIN gm THEN gm[k] ELSE Zero]

Idle == [ret |-> -2]

\* no pass of integrate's loop has reached gDist yet
NoStep == [qa |-> -1]

\* the locals of integrate on entry.  ret: -1 while the loop runs, then the
\* value returned (0, 1 or 10); -3 when calcEhh ended the process.  nwin
\* counts the windows calcEhh has stored a value for, curW is the last value
\* stored and prevW the one before; oob records a read past the end of pos.
\* last holds what the last pass that reached gDist worked with: the two
\* positions handed to gDist, delta_gDist after the call, dist, the area of
\* the trapezoid and what was added to *iHH; hits and misses count the calls
\* of gDist that returned true and false; inserted holds the keys the calls
\* of gDist have added to the map.
IntegrateEntry(direction, snp, ref, denom, iHH) ==
  [ret |-> -1, dir |-> direction, snp |-> snp, ref |-> ref, denom |-> denom,
   start |-> IF direction THEN snp ELSE snp + 1,
   end |-> IF direction THEN snp ELSE snp + 1,
   ehh |-> One, iHH |-> iHH,
   nwin |-> 0, prevW |-> NaN, curW |-> NaN,
   fatal |-> FALSE, oob |-> FALSE, trace |-> <<>>,
   last |-> NoStep, hits |-> 0, misses |-> 0, inserted |-> {}]

\* one pass through the body of integrate's while loop, the loop test first
IntegrateStep(d, H, pos, gm, nhaps, maxl, g, c) ==
  IF ~RGt(c.ehh, Threshold(d)) THEN [c EXCEPT !.ret = 10]
  ELSE
  LET start == IF c.dir THEN c.start ELSE c.start - 1
      end == IF c.dir THEN c.end + 1 ELSE c.end
      c1 == [c EXCEPT !.start = start, !.end = end]
  IN
  IF start < 0 THEN [c1 EXCEPT !.ret = 1]
  ELSE IF end > maxl THEN [c1 EXCEPT !.ret = 1]
  ELSE
  LET r == calcEhh(H, start, end, c.ref, nhaps, c.denom, c.dir)
      ehhRT == r.ehh
      c2 == [c1 EXCEPT !.nwin = c.nwin + 1, !.prevW = c.curW, !.curW = ehhRT]
  IN
  IF r.fatal THEN [c1 EXCEPT !.fatal = TRUE, !.ret = -3]
  ELSE IF Decayed(d, ehhRT) THEN [c2 EXCEPT !.ret = 0]
  ELSE
  LET pa == IF c.dir THEN PosAt(pos, end - 1, g) ELSE PosAt(pos, start + 1, g)
      pb == IF c.dir THEN PosAt(pos, end, g) ELSE PosAt(pos, start, g)
      found == gDist(gm, pa, pb, Rat(1, 1000))
      delta_gDist == found.gd
      dist == Abs(PosAt(pos, end - 1, g) - PosAt(pos, end, g))
      read == IF d = "iHS" THEN {end - 1, end} \cup (IF c.dir THEN {} ELSE {start, start + 1})
              ELSE IF c.dir THEN {end - 1, end} ELSE {start, start + 1}
      area == RMul(RMul(RAdd(c.ehh, ehhRT), Rat(1, 2)), delta_gDist)
      seen == [qa |-> pa, qb |-> pb, gd |-> delta_gDist,
               dist |-> IF d = "iHS" THEN dist ELSE 0,
               area |-> area, added |-> Zero]
      c3 == [c2 EXCEPT !.oob = c.oob \/ (\E i \in read : i >= Len(pos)),
                       !.last = seen,
                       !.inserted = c.inserted \cup gDistInserts(gm, pa, pb),
                       !.hits = c.hits + (IF found.ok THEN 1 ELSE 0),
                       !.misses = c.misses + (IF found.ok THEN 0 ELSE 1)]
  IN
  IF d = "iHS" THEN
    IF dist > 10000 THEN [c3 EXCEPT !.ret = 1]
    ELSE LET correction == IF dist > 5000 THEN Rat(5000, dist) ELSE One
         IN [c3 EXCEPT !.iHH = RAdd(c.iHH, RMul(area, correction)),
                       !.last.added = RMul(area, correction),
                       !.ehh = ehhRT]
  ELSE
    [c3 EXCEPT !.iHH = RAdd(c.iHH, area),
               !.last.added = area,
               !.trace = Append(c.trace,
                                [pos |-> IF c.dir THEN PosAt(pos, end, g)
                                         ELSE PosAt(pos, start, g),
                                 ehh |-> c.ehh, ref |-> c.ref, dir |-> c.dir]),
               !.ehh = ehhRT]

-----------------------------------------------------------------------------
(* Inputs of the window engine.                                            *)

Chars == {"0", "1"}

RECURSIVE HapCode(_)
HapCode(h) ==
  IF h = <<>> THEN 0
  ELSE 2 * HapCode(SubSeq(h, 1, Len(h) - 1)) + (IF h[Len(h)] = "1" THEN 1 ELSE 0)

\* the haplotype matrices of n samples over len retained sites, one for each
\* multiset of chromosome copies (the copies listed in ascending order)
Matrices(n, len) ==
  {H \in [1..n -> [first : [1..len -> Chars], second : [1..len -> Chars]]] :
     /\ \A i \in 1..n : HapCode(H[i].first) <= HapCode(H[i].second)
     /\ \A i \in 1..(n - 1) : HapCode(H[i].second) <= HapCode(H[i + 1].first)}

\* physical distances between neighbouring retained sites: below the 5,000 bp
\* correction, between the correction and the 10,000 bp cut-off, above it
Gaps == {1000, 8000, 12000}

RECURSIVE PosFrom(_, _)
PosFrom(first, gaps) ==
  IF gaps = <<>> THEN <<first>>
  ELSE <<first>> \o PosFrom(first + Head(gaps), Tail(gaps))

\* every ascending position series of len sites whose steps are in Gaps
PosSeries(len) ==
  IF len = 0 THEN {<<>>}
  ELSE {PosFrom(20000, gaps) : gaps \in [1..(len - 1) -> Gaps]}

\* what a read one past the end of the position series can yield: a value
\* near the last position, one within the correction range, one far away
Garbage(pos) ==
  IF pos = <<>> THEN {0}
  ELSE {0, pos[Len(pos)] + 1000, pos[Len(pos)] + 8000}

EmptyMap == [p \in {} |-> Zero]

\* a loaded genetic map with an entry for each of the given positions
MapOver(ps) == [p \in ps |-> Rat(p - 20000, 50000000)]

\* no map file, or a map that ends before the last site
GeneticMaps(pos) ==
  {EmptyMap, MapOver({pos[i] : i \in 1..(Len(pos) - 1)})}

-----------------------------------------------------------------------------
(* The window engine run on its own: integrate called as calc calls it,    *)
(* one loop pass per step.                                                 *)

MaxL(H) == Len(H[1].first)

\* no command line, no record read yet
NoCfg == [nsamples |-> 0]
NoRecord == [pos |-> 0]
\* no genetic map file named on the command line; no routine called on its own
NoFile == [none |-> TRUE]
NoProbe == [fn |-> "none"]

InitEHH ==
  /\ drv \in {"iHS", "meltEHH"}
  /\ \E len \in 1..EhhMaxLen :
       /\ haplotypes \in Matrices(EhhSamples, len)
       /\ positions \in PosSeries(len)
  /\ afs = <<>>
  /\ geneticMap \in GeneticMaps(positions)
  /\ cs = Idle
  /\ seqid = "s1"
  /\ threads = 1
  /\ wk = <<>>
  /\ nextIter = 0
  /\ lock = 0
  /\ lockInit = FALSE
  /\ computed = <<>>
  /\ out = <<>>
  /\ exitCode = -1
  /\ pc = "calc"
  /\ cfg = NoCfg
  /\ var = NoRecord
  /\ nread = 0
  /\ nodd = 0
  /\ mapFile = NoFile
  /\ probe = NoProbe
  /\ fault = FALSE

\* calc: denomP1 / denomP2 and the call of integrate
EhhCall ==
  /\ cs.ret = -2
  /\ \E snp \in 0..(MaxL(haplotypes) - 1), ref \in Chars, direction \in BOOLEAN :
       LET refH == countHaps(Len(haplotypes), haplotypes, snp, snp + 1)
       IN cs' = IntegrateEntry(direction, snp, ref, MapGet(refH, <<ref>>), Zero)
  /\ UNCHANGED <<engineVars, calcVars, mainVars, mapVars>>

EhhStep ==
  /\ cs.ret = -1
  /\ \E g \in Garbage(positions) :
       cs' = IntegrateStep(drv, haplotypes, positions, geneticMap,
                           Len(haplotypes), MaxL(haplotypes), g, cs)
  /\ geneticMap' = WithKeys(geneticMap, cs'.inserted)
  /\ UNCHANGED <<drv, haplotypes, positions, afs, seqid, calcVars, mainVars,
                 mapVars>>

EhhReturn ==
  /\ cs.ret \in {0, 1, 10}
  /\ cs' = Idle
  /\ UNCHANGED <<engineVars, calcVars, mainVars, mapVars>>

NextEHH == EhhCall \/ EhhStep \/ EhhReturn

SpecEHH == InitEHH /\ [][NextEHH]_vars

-----------------------------------------------------------------------------
(* iHS calc: the per-site loop, run by a team of OpenMP workers.           *)

\* a / b on doubles
RQuot(a, b) ==
  IF ~IsNum(a) \/ ~IsNum(b) THEN NaN ELSE RDiv(a.n * b.d, a.d * b.n)

\* integrate from entry to return (or to the exit taken inside calcEhh); the
\* element behind the position series reads as g throughout the call
RECURSIVE IntegrateRun(_, _, _, _, _, _, _, _)
IntegrateRun(d, H, pos, gm, nhaps, maxl, g, c) ==
  IF c.ret # -1 THEN c
  ELSE IntegrateRun(d, H, pos, gm, nhaps, maxl, g,
                    IntegrateStep(d, H, pos, gm, nhaps, maxl, g, c))

\* (mutation) a site is skipped only when both integrals are degenerate
DegenerateBoth(ihhR, ihhA) ==
  RLt(ihhR, Rat(1, 10000)) /\ RLt(ihhA, Rat(1, 10000))

\* the test calc skips a site on
Degenerate(ihhR, ihhA) ==
  RLt(ihhR, Rat(1, 10000)) \/ RLt(ihhA, Rat(1, 10000))

\* what one iteration of calc's loop holds after the four integrate calls;
\* fatal when calcEhh ended the process in one of them
SiteRecord(snp, r1, r2, r3, r4) ==
  [site |-> snp,
   rets |-> <<r1.ret, r2.ret, r3.ret, r4.ret>>,
   ihhR |-> r2.iHH, ihhA |-> r4.iHH,
   refFail |-> r1.ret + r2.ret, altFail |-> r3.ret + r4.ret,
   fatal |-> r1.fatal \/ r2.fatal \/ r3.fatal \/ r4.fatal,
   wins |-> <<r1.nwin, r2.nwin, r3.nwin, r4.nwin>>,
   inserted |-> r1.inserted \cup r2.inserted \cup r3.inserted \cup r4.inserted]

\* one iteration of calc's loop when the element behind the position series
\* reads as g
SiteRecordWith(d, H, pos, gm, nhaps, maxl, snp, g) ==
  LET refH == countHaps(nhaps, H, snp, snp + 1)
      denomP1 == MapGet(refH, <<"0">>)
      denomP2 == MapGet(refH, <<"1">>)
      Run(e) == IntegrateRun(d, H, pos, gm, nhaps, maxl, g, e)
      r1 == Run(IntegrateEntry(TRUE, snp, "0", denomP1, Zero))
      r2 == Run(IntegrateEntry(FALSE, snp, "0", denomP1, r1.iHH))
      r3 == Run(IntegrateEntry(TRUE, snp, "1", denomP2, Zero))
      r4 == Run(IntegrateEntry(FALSE, snp, "1", denomP2, r3.iHH))
  IN SiteRecord(snp, r1, r2, r3, r4)

\* the outcomes of one iteration of calc's loop: one, unless it reads the
\* element behind the position series
SiteOutcomes(d, H, pos, gm, nhaps, maxl, snp) ==
  {SiteRecordWith(d, H, pos, gm, nhaps, maxl, snp, g) : g \in Garbage(pos)}

\* the eight values of a result row, in the order calc writes them
RowValues(sq, pos, af, rec) ==
  <<sq, pos[rec.site + 1], af[rec.site + 1], rec.ihhR, rec.ihhA,
    [ln |-> RQuot(rec.ihhA, rec.ihhR)], rec.refFail, rec.altFail>>

RowLen == 8

\* the rows of a single-thread run in which the element behind the position
\* series reads as g
SerialRows(H, pos, af, gm, sq, g) ==
  LET recs == {SiteRecordWith("iHS", H, pos, gm, Len(H), MaxL(H), snp, g) :
                 snp \in 0..(MaxL(H) - 1)}
  IN {RowValues(sq, pos, af, rec) :
        rec \in {r \in recs : ~Degenerate(r.ihhR, r.ihhA)}}

\* the column of a matrix at site i (1-based), one character per copy
Column(H, i) == [ic \in Copies(Len(H)) |-> CopyOf(H, ic)[i]]

\* a site passes the load filter only with nref >= 2 and nalt >= 2: each
\* allele is carried by at least two copies
ValidColumn(col) ==
  \A a \in Chars : Cardinality({ic \in DOMAIN col : col[ic] = a}) >= 2

ValidMatrices(n, len) ==
  {H \in Matrices(n, len) : \A i \in 1..len : ValidColumn(Column(H, i))}

\* the frequency series of a matrix: the share of alternate alleles per site
AfSeries(H) ==
  [i \in 1..MaxL(H) |->
     Rat(Cardinality({ic \in Copies(Len(H)) : CopyOf(H, ic)[i] = "1"}),
         2 * Len(H))]

\* k copies of a
RECURSIVE Filler(_, _)
Filler(a, k) == IF k = 0 THEN <<>> ELSE <<a>> \o Filler(a, k - 1)

\* copy j of sample i over k leading sites, which tell all copies of three
\* samples apart: "0" is carried in turn by the first sample, by the first
\* copies, by the second sample
LeadingSites(i, j, k) ==
  [c \in 1..k |-> IF c % 3 = 1 THEN (IF i = 1 THEN "0" ELSE "1")
                  ELSE IF c % 3 = 2 THEN (IF j = 1 THEN "0" ELSE "1")
                  ELSE (IF i = 2 THEN "0" ELSE "1")]

\* a matrix of ChunkSize + 1 sites: sparse leading sites, then the sites of T
LongMatrix(T) ==
  LET k == ChunkSize + 1 - MaxL(T)
  IN [i \in 1..Len(T) |->
        [first |-> LeadingSites(i, 1, k) \o T[i].first,
         second |-> LeadingSites(i, 2, k) \o T[i].second]]

\* its positions: the leading sites 12,000 bp apart, the sites of T 1,000 bp
LongPositions(T) ==
  PosFrom(20000, Filler(12000, ChunkSize + 1 - MaxL(T)) \o Filler(1000, MaxL(T) - 1))

\* no map file, or a map with an entry for every retained site
CalcMaps(pos) == {EmptyMap, MapOver({pos[i] : i \in 1..Len(pos)})}

\* the inputs calc is run on: the short matrices with every position series
\* and genetic map, and the long matrices without a map
ShortInputs ==
  UNION {UNION {{[H |-> H, pos |-> pos, gm |-> gm] : gm \in CalcMaps(pos)} :
                  H \in ValidMatrices(CalcSamples, Len(pos))} :
           pos \in UNION {PosSeries(len) : len \in 1..CalcMaxLen}}

LongInputs ==
  {[H |-> LongMatrix(T), pos |-> LongPositions(T), gm |-> EmptyMap] :
     T \in ValidMatrices(CalcSamples, TailLen)}

Workers == 1..threads

Parked == [pc |-> "grab", snp |-> 0, hi |-> 0, col |-> 0]

InitCalc ==
  /\ drv = "iHS"
  /\ \E inp \in ShortInputs \cup LongInputs :
       /\ haplotypes = inp.H
       /\ positions = inp.pos
       /\ geneticMap = inp.gm
  /\ afs = AfSeries(haplotypes)
  /\ seqid = "s1"
  /\ cs = Idle
  /\ threads \in 1..NThreads
  /\ wk = [w \in Workers |-> Parked]
  /\ nextIter = 0
  /\ lock = 0
  /\ lockInit = FALSE
  /\ computed = EmptyMap
  /\ out = <<>>
  /\ exitCode = -1
  /\ pc = "calc"
  /\ cfg = NoCfg
  /\ var = NoRecord
  /\ nread = 0
  /\ nodd = 0
  /\ mapFile = NoFile
  /\ probe = NoProbe
  /\ fault = FALSE

\* schedule(dynamic, 20): an idle worker takes the next ChunkSize iterations,
\* or leaves the loop when none are left
NextChunk(w) ==
  /\ pc = "calc"
  /\ drv = "iHS"
  /\ exitCode = -1
  /\ wk[w].pc = "grab"
  /\ IF nextIter < MaxL(haplotypes)
     THEN /\ wk' = [wk EXCEPT ![w] = [pc |-> "iter", snp |-> nextIter,
                                      hi |-> Min(nextIter + ChunkSize,
                                                 MaxL(haplotypes)),
                                      col |-> 0]]
          /\ nextIter' = nextIter + ChunkSize
     ELSE /\ wk' = [wk EXCEPT ![w].pc = "done"]
          /\ UNCHANGED nextIter
  /\ UNCHANGED <<mapVars, mainVars, engineVars, cs, threads, lock, lockInit, computed, out, exitCode>>

\* the worker's next iteration of its chunk
Advance(w) ==
  IF wk[w].snp + 1 < wk[w].hi
  THEN [wk[w] EXCEPT !.pc = "iter", !.snp = wk[w].snp + 1, !.col = 0]
  ELSE [wk[w] EXCEPT !.pc = "grab", !.col = 0]

\* the body of the loop up to the degenerate test
Compute(w) ==
  /\ pc = "calc"
  /\ drv = "iHS"
  /\ exitCode = -1
  /\ wk[w].pc = "iter"
  /\ \E res \in SiteOutcomes(drv, haplotypes, positions, geneticMap,
                             Len(haplotypes), MaxL(haplotypes), wk[w].snp) :
       /\ computed' = [s \in DOMAIN computed \cup {wk[w].snp} |->
                         IF s = wk[w].snp THEN res ELSE computed[s]]
       /\ geneticMap' = WithKeys(geneticMap, res.inserted)
       /\ IF res.fatal
          THEN exitCode' = 1 /\ UNCHANGED wk
          ELSE /\ UNCHANGED exitCode
               /\ IF Degenerate(res.ihhR, res.ihhA)
                  THEN wk' = [wk EXCEPT ![w] = Advance(w)]
                  ELSE wk' = [wk EXCEPT ![w].pc = "lock"]
  /\ UNCHANGED <<mapVars, mainVars, drv, haplotypes, positions, afs, seqid, cs,
                 threads, nextIter, lock, lockInit, out>>

\* (mutation) omp_set_lock returns at once, whoever holds the lock
LockFreeAlways(l) == TRUE

\* omp_set_lock returns once the lock is free
LockFree(l) == l = 0

SetLock(w) ==
  /\ pc = "calc"
  /\ drv = "iHS"
  /\ exitCode = -1
  /\ wk[w].pc = "lock"
  /\ LockFree(lock)
  /\ lock' = w
  /\ wk' = [wk EXCEPT ![w].pc = "write", ![w].col = 1]
  /\ UNCHANGED <<mapVars, mainVars, engineVars, cs, threads, nextIter, lockInit, computed, out, exitCode>>

\* one << of the row: the value of the worker's next column goes to cout
WriteColumn(w) ==
  /\ pc = "calc"
  /\ drv = "iHS"
  /\ exitCode = -1
  /\ wk[w].pc = "write"
  /\ out' = Append(out, [site |-> wk[w].snp, col |-> wk[w].col,
                         val |-> RowValues(seqid, positions, afs,
                                           computed[wk[w].snp])[wk[w].col]])
  /\ wk' = [wk EXCEPT ![w] = IF wk[w].col = RowLen
                             THEN [wk[w] EXCEPT !.pc = "unlock"]
                             ELSE [wk[w] EXCEPT !.col = wk[w].col + 1]]
  /\ UNCHANGED <<mapVars, mainVars, engineVars, cs, threads, nextIter, lock, lockInit, computed, exitCode>>

\* (mutation) the worker goes on without releasing the lock
UnsetLockKept(w) ==
  /\ pc = "calc"
  /\ drv = "iHS"
  /\ exitCode = -1
  /\ wk[w].pc = "unlock"
  /\ lock' = lock
  /\ wk' = [wk EXCEPT ![w] = Advance(w)]
  /\ UNCHANGED <<mapVars, mainVars, engineVars, cs, threads, nextIter, lockInit, computed, out, exitCode>>

UnsetLock(w) ==
  /\ pc = "calc"
  /\ drv = "iHS"
  /\ exitCode = -1
  /\ wk[w].pc = "unlock"
  /\ lock' = 0
  /\ wk' = [wk EXCEPT ![w] = Advance(w)]
  /\ UNCHANGED <<mapVars, mainVars, engineVars, cs, threads, nextIter, lockInit, computed, out, exitCode>>

\* clearHaplotypes: every copy of every row becomes empty
clearHaplotypes(H) == [i \in DOMAIN H |-> [first |-> <<>>, second |-> <<>>]]

\* the end of the parallel loop; main clears the matrix and exits with 0
CalcReturn ==
  /\ pc = "calc"
  /\ drv = "iHS"
  /\ exitCode = -1
  /\ \A w \in Workers : wk[w].pc = "done"
  /\ haplotypes' = clearHaplotypes(haplotypes)
  /\ exitCode' = 0
  /\ UNCHANGED <<mapVars, mainVars, drv, positions, afs, geneticMap, seqid, cs, threads,
                 wk, nextIter, lock, lockInit, computed, out>>

NextCalc ==
  \/ \E w \in Workers : NextChunk(w)
  \/ \E w \in Workers : Compute(w)
  \/ \E w \in Workers : SetLock(w)
  \/ \E w \in Workers : WriteColumn(w)
  \/ \E w \in Workers : UnsetLock(w)
  \/ CalcReturn

SpecCalc == InitCalc /\ [][NextCalc]_vars

\* the inputs of the runs under a fair scheduler: the first two samples are
\* homozygous at the last TailLen sites
FairInputs ==
  {inp \in ShortInputs \cup LongInputs :
     \A s \in 1..2 : \A n \in DOMAIN inp.pos :
       n > Len(inp.pos) - TailLen => inp.H[s].first[n] = inp.H[s].second[n]}

InitCalcFair ==
  /\ InitCalc
  /\ [H |-> haplotypes, pos |-> positions, gm |-> geneticMap] \in FairInputs

\* some worker is at the top of an iteration: Compute can be taken
ComputeReady ==
  /\ pc = "calc"
  /\ drv = "iHS"
  /\ exitCode = -1
  /\ \E w \in Workers : wk[w].pc = "iter"

\* the steps of the team other than the body of an iteration
TeamStep ==
  \/ \E w \in Workers : NextChunk(w)
  \/ \E w \in Workers : SetLock(w)
  \/ \E w \in Workers : WriteColumn(w)
  \/ \E w \in Workers : UnsetLock(w)
  \/ CalcReturn

\* weak fairness of Compute, with its guard written out: a worker that stays
\* at the top of an iteration runs the body
ComputeRuns ==
  []<>(~ComputeReady) \/ []<><<\E w \in Workers : Compute(w)>>_vars

\* the loop under a scheduler that lets the team run: while some worker can
\* take a step, or main can return from calc, a step is taken
SpecCalcFair ==
  InitCalcFair /\ [][NextCalc]_vars /\ WF_vars(TeamStep) /\ ComputeRuns

-----------------------------------------------------------------------------
(* hapLRT calc: the lengths of the haplotype blocks shared around a site.  *)

\* the elements of a set of integers in ascending order
RECURSIVE Ascending(_)
Ascending(S) ==
  IF S = {} THEN <<>>
  ELSE LET m == CHOOSE x \in S : \A y \in S : x <= y
       IN <<m>> \o Ascending(S \ {m})

\* *it for an iterator i sites into h: the character there, or whatever lies
\* outside the string
CharAt(h, i) == IF i \in 0..(Len(h) - 1) THEN h[i + 1] ELSE "?"

\* (mutation) the right iterator may step onto end()
CanStepRightToEnd(e, n) == e < n

\* citE < cEnd - 1: the right iterator is not yet on the last character
CanStepRight(e, n) == e < n - 1

\* the while loop of findLengths: the block [b, e] (0-based) shared by cur and
\* alt grows by one site at either end until a mismatch or smax sites.  lo
\* and hi are the lowest and the highest index read so far; stuck is a pass
\* that neither leaves the loop nor changes a local, so that the loop never
\* ends
RECURSIVE BlockRun(_, _, _, _, _, _, _, _)
BlockRun(cur, alt, b, e, len, smax, lo, hi) ==
  IF ~(len < smax) THEN [len |-> len, lo |-> lo, hi |-> hi, stuck |-> FALSE]
  ELSE
  LET goL == b > 0
      b1 == IF goL THEN b - 1 ELSE b
      lo1 == Min(lo, b1)
      goR == CanStepRight(e, Len(cur))
      e1 == IF goR THEN e + 1 ELSE e
      hi1 == IF hi < e1 THEN e1 ELSE hi
      to_add == (IF goL THEN 1 ELSE 0) + (IF goR THEN 1 ELSE 0)
  IN IF goL /\ CharAt(cur, b1) # CharAt(alt, b1)
     THEN [len |-> len, lo |-> lo1, hi |-> hi, stuck |-> FALSE]
     ELSE IF goR /\ CharAt(cur, e1) # CharAt(alt, e1)
     THEN [len |-> len, lo |-> lo1, hi |-> hi1, stuck |-> FALSE]
     ELSE IF to_add = 0
     THEN [len |-> len, lo |-> lo1, hi |-> hi1, stuck |-> TRUE]
     ELSE BlockRun(cur, alt, b1, e1, len + to_add, smax, lo1, hi1)

\* the comparison of two copies around core: the length credited, the
\* indices read, and whether the loop never ends
PairRun(cur, alt, core, smax) ==
  IF CharAt(cur, core) # CharAt(alt, core)
  THEN [len |-> 0, lo |-> core, hi |-> core, stuck |-> FALSE]
  ELSE BlockRun(cur, alt, core, core, 1, smax, core, core)

\* the length the while loop leaves in len
BlockLen(cur, alt, b, e, len, smax) ==
  BlockRun(cur, alt, b, e, len, smax, b, e).len

\* the block two copies share around core: 0 when they differ at core
PairLen(cur, alt, core, smax) ==
  IF cur[core + 1] # alt[core + 1] THEN 0
  ELSE BlockLen(cur, alt, core, core, 1, smax)

\* findLengths: per copy of the group (first copies, then second copies) the
\* longest block it shares with another copy of the group
findLengths(H, group, core) ==
  LET gmax == Len(group)
      smax == Len(H[1].first)
      copy(i) == IF i <= gmax THEN H[group[i] + 1].first
                 ELSE H[group[i - gmax] + 1].second
      len(i, j) == IF i < j THEN PairLen(copy(i), copy(j), core, smax)
                   ELSE PairLen(copy(j), copy(i), core, smax)
  IN [i \in 1..(2 * gmax) |->
        LET ls == {len(i, j) : j \in (1..(2 * gmax)) \ {i}} \cup {0}
        IN CHOOSE m \in ls : \A x \in ls : x <= m]

RECURSIVE SumSeq(_)
SumSeq(q) == IF q = <<>> THEN 0 ELSE Head(q) + SumSeq(Tail(q))

\* mean: NaN for an empty array
mean(data) == IF Len(data) = 0 THEN NaN ELSE Rat(SumSeq(data), Len(data))

\* the row hapLRT calc writes for a site; the p-value is a function of the
\* two arrays of lengths and is carried as that pair
LrtRow(H, pos, target, background, sq, snp) ==
  LET targetLengths == findLengths(H, target, snp)
      backgroundLengths == findLengths(H, background, snp)
      tm == mean(targetLengths)
      bm == mean(backgroundLengths)
      dir == IF RLt(tm, bm) THEN -1 ELSE 1
  IN <<sq, pos[snp + 1], tm, bm,
       [lrt |-> <<targetLengths, backgroundLengths>>], dir>>

\* hapLRT calc: a row per site of the matrix, in site order
LrtCalc(H, pos, target, background, sq) ==
  [k \in 1..Len(H[1].first) |->
     [site |-> k - 1, col |-> 0,
      val |-> LrtRow(H, pos, target, background, sq, k - 1)]]

-----------------------------------------------------------------------------
(* meltEHH calc: the decay curve around the focal position.                *)

\* the lines of one integrate call
TraceLines(snp, r) ==
  [k \in 1..Len(r.trace) |->
     [site |-> snp, col |-> 0,
      val |-> <<r.trace[k].pos, r.trace[k].ehh, r.trace[k].ref, r.trace[k].dir>>]]

\* the four integrate calls of an iteration of calc, in order
CallPlan ==
  <<[dir |-> TRUE, ref |-> "0"], [dir |-> FALSE, ref |-> "0"],
    [dir |-> TRUE, ref |-> "1"], [dir |-> FALSE, ref |-> "1"]>>

\* the calls of the plan from the k-th on, until one ends the process; acc
\* holds the lines written so far and the integral of the allele at hand
RECURSIVE MeltCalls(_, _, _, _, _, _, _, _)
MeltCalls(H, pos, gm, nhaps, snp, g, k, acc) ==
  IF k > Len(CallPlan) \/ acc.fatal THEN acc
  ELSE
  LET c == CallPlan[k]
      denom == MapGet(countHaps(nhaps, H, snp, snp + 1), <<c.ref>>)
      r == IntegrateRun("meltEHH", H, pos, gm, nhaps, MaxL(H), g,
                        IntegrateEntry(c.dir, snp, c.ref, denom,
                                       IF c.dir THEN Zero ELSE acc.iHH))
  IN MeltCalls(H, pos, gm, nhaps, snp, g, k + 1,
               [fatal |-> r.fatal, iHH |-> r.iHH,
                lines |-> acc.lines \o TraceLines(snp, r)])

\* the lines calc writes for site snp when the element behind the position
\* series reads as g: the anchor line, then the lines of the four calls
MeltSite(H, pos, gm, nhaps, snp, g) ==
  MeltCalls(H, pos, gm, nhaps, snp, g, 1,
            [fatal |-> FALSE, iHH |-> Zero,
             lines |-> <<[site |-> snp, col |-> 0,
                          val |-> <<pos[snp + 1], "1", "0", "0">>]>>])

\* meltEHH calc: only the site at the focal position is worked on
MeltCalc(H, pos, gm, nhaps, focal, g) ==
  LET sites == {snp \in 0..(MaxL(H) - 1) : pos[snp + 1] = focal}
  IN IF sites = {} THEN [fatal |-> FALSE, iHH |-> Zero, lines |-> <<>>]
     ELSE MeltSite(H, pos, gm, nhaps, CHOOSE snp \in sites : TRUE, g)

-----------------------------------------------------------------------------
(* The genetic map: loadGeneticMap, and gDist called on the loaded map.    *)

\* a line of the map file: sequence name, centimorgan value, position
\* (columns 1, 3 and 4 of the tab-separated line)
MapLine(sq, cm, pos) == [seq |-> sq, cm |-> cm, pos |-> pos]

\* a * k for a double a and an integer k: k additions of a
RTimes(a, k) == RMul(a, Rat(k, 1))

\* the for loop of loadGeneticMap: the entries lastpos .. pos - 1 take the
\* running value, which starts at lastvalue and grows by chunk per entry
FillMap(gm, lastpos, pos, lastvalue, chunk) ==
  [i \in DOMAIN gm \cup lastpos..(pos - 1) |->
     IF i \in lastpos..(pos - 1)
     THEN RAdd(lastvalue, RTimes(chunk, i - lastpos))
     ELSE gm[i]]

\* the while loop of loadGeneticMap over the lines still unread
RECURSIVE LoadLines(_, _, _, _, _, _, _)
LoadLines(lines, sq, start, end, lastpos, lastvalue, gm) ==
  IF lines = <<>> THEN gm
  ELSE
  LET l == Head(lines)
      diff == Abs(l.pos - lastpos)
      vdiff == RAbsDiff(lastvalue, l.cm)
      chunk == IF diff = 0 THEN NaN ELSE RMul(vdiff, Rat(1, diff))
      filled == FillMap(gm, lastpos, l.pos, lastvalue, chunk)
  IN IF l.seq # sq
     THEN LoadLines(Tail(lines), sq, start, end, lastpos, lastvalue, gm)
     ELSE IF lastpos = 0 /\ start > l.pos
     THEN LoadLines(Tail(lines), sq, start, end, l.pos, lastvalue, gm)
     ELSE IF l.pos > end THEN filled
     ELSE LoadLines(Tail(lines), sq, start, end, l.pos, l.cm, filled)

\* loadGeneticMap: the map after the call, and whether the call ended the
\* process (a file was named and the map is still empty)
loadGeneticMap(file, gm, sq, start, end) ==
  IF file = NoFile THEN [gm |-> gm, fatal |-> FALSE]
  ELSE LET loaded == LoadLines(file, sq, start, end, 0, Zero, gm)
       IN [gm |-> loaded, fatal |-> DOMAIN loaded = {}]

\* positions of the known points of the small map files
MapPoints == {2, 4, 7}

\* centimorgan values of the known points
MapValues == {Zero, Rat(1, 2), One, Rat(2, 1)}

\* the map files of n lines for sequence sq: positions and centimorgan
\* values both ascending
FilesOf(sq, n) ==
  {f \in [1..n -> {MapLine(sq, cm, pos) : cm \in MapValues, pos \in MapPoints}] :
     \A i \in 1..(n - 1) : /\ f[i].pos < f[i + 1].pos
                          /\ RLt(f[i].cm, f[i + 1].cm)}

\* the file of two points 1000 -> 0.0 cM and 2000 -> 1.0 cM
ExampleFile == <<MapLine("s1", Zero, 1000), MapLine("s1", One, 2000)>>

\* the map files: of two or three known points, with or without a line of
\* another sequence between them
MapFiles ==
  FilesOf("s1", 2) \cup FilesOf("s1", 3) \cup {ExampleFile}
    \cup {<<f[1], MapLine("s2", One, 3), f[2]>> : f \in FilesOf("s1", 2)}

\* the lines of a file for sequence sq
KnownPoints(file, sq) == {i \in DOMAIN file : file[i].seq = sq}

FirstPoint(file, sq) ==
  file[CHOOSE i \in KnownPoints(file, sq) : \A j \in KnownPoints(file, sq) : i <= j]

LastPoint(file, sq) ==
  file[CHOOSE i \in KnownPoints(file, sq) : \A j \in KnownPoints(file, sq) : j <= i]

\* the first and last retained position main hands to loadGeneticMap: around
\* the first and the last known point of the file
Spans(file, sq) ==
  {<<s, e>> : s \in {FirstPoint(file, sq).pos - 1, FirstPoint(file, sq).pos,
                     FirstPoint(file, sq).pos + 1},
             e \in {LastPoint(file, sq).pos, LastPoint(file, sq).pos + 1}}

\* the positions gDist is called with: the known points, their neighbours
\* and the point halfway between the first and the last
QueryPoints(file, sq) ==
  IF file = NoFile THEN {2, 4}
  ELSE {file[i].pos : i \in KnownPoints(file, sq)}
         \cup {LastPoint(file, sq).pos - 1, LastPoint(file, sq).pos + 1,
               (FirstPoint(file, sq).pos + LastPoint(file, sq).pos) \div 2}

InitMap ==
  /\ drv = "iHS"
  /\ mapFile \in MapFiles \cup {NoFile}
  /\ positions \in IF mapFile = NoFile THEN {<<2, 4>>} ELSE Spans(mapFile, "s1")
  /\ haplotypes = <<>>
  /\ afs = <<>>
  /\ geneticMap = EmptyMap
  /\ cs = Idle
  /\ seqid = "s1"
  /\ threads = 1
  /\ wk = <<>>
  /\ nextIter = 0
  /\ lock = 0
  /\ lockInit = FALSE
  /\ computed = <<>>
  /\ out = <<>>
  /\ exitCode = -1
  /\ pc = "map"
  /\ cfg = NoCfg
  /\ var = NoRecord
  /\ nread = 0
  /\ nodd = 0
  /\ probe = NoProbe
  /\ fault = FALSE

\* main: loadGeneticMap(positions.front(), positions.back())
LoadMap ==
  /\ pc = "map"
  /\ exitCode = -1
  /\ LET r == loadGeneticMap(mapFile, geneticMap, seqid, positions[1],
                             positions[Len(positions)])
     IN /\ geneticMap' = r.gm
        /\ exitCode' = IF r.fatal THEN 1 ELSE -1
  /\ pc' = "loaded"
  /\ UNCHANGED <<drv, haplotypes, positions, afs, cs, seqid, threads, wk,
                 nextIter, lock, lockInit, computed, out, cfg, var, nread,
                 nodd, mapFile, probe, fault>>

\* gDist called, as integrate calls it, with two positions and a distance
\* holding 0.001
QueryMap ==
  /\ pc = "loaded"
  /\ exitCode = -1
  /\ \E a, b \in QueryPoints(mapFile, seqid) :
       LET r == gDist(geneticMap, a, b, Rat(1, 1000))
       IN probe' = [fn |-> "gDist", a |-> a, b |-> b, ok |-> r.ok, gd |-> r.gd]
  /\ UNCHANGED <<engineVars, cs, calcVars, mainVars, mapFile, fault>>

NextMap == LoadMap \/ QueryMap

SpecMap == InitMap /\ [][NextMap]_vars

-----------------------------------------------------------------------------
(* findLengths run on its own: one sample, its two copies compared.        *)

\* sites of the two copies
MaxPairLen == 5

InitPair ==
  /\ drv = "hapLRT"
  /\ \E len \in 1..MaxPairLen :
       haplotypes \in [{1} -> [first : [1..len -> Chars],
                               second : [1..len -> Chars]]]
  /\ positions = <<>>
  /\ afs = <<>>
  /\ geneticMap = EmptyMap
  /\ cs = Idle
  /\ seqid = "s1"
  /\ threads = 1
  /\ wk = <<>>
  /\ nextIter = 0
  /\ lock = 0
  /\ lockInit = FALSE
  /\ computed = <<>>
  /\ out = <<>>
  /\ exitCode = -1
  /\ pc = "pair"
  /\ cfg = NoCfg
  /\ var = NoRecord
  /\ nread = 0
  /\ nodd = 0
  /\ mapFile = NoFile
  /\ probe = NoProbe
  /\ fault = FALSE

\* findLengths called, as calc calls it, for a group of the one sample and a
\* site of the matrix
FindLengthsCall ==
  /\ pc = "pair"
  /\ \E core \in 0..(MaxL(haplotypes) - 1) :
       probe' = [fn |-> "findLengths", core |-> core,
                 lengths |-> findLengths(haplotypes, <<0>>, core),
                 run |-> PairRun(haplotypes[1].first, haplotypes[1].second,
                                 core, MaxL(haplotypes))]
  /\ UNCHANGED <<engineVars, cs, calcVars, mainVars, mapFile, fault>>

NextPair == FindLengthsCall

SpecPair == InitPair /\ [][NextPair]_vars

-----------------------------------------------------------------------------
(* main of the three drivers: the loop over the records of the stream.     *)

\* samples of the variant file
NSamples == 3
\* records of a stream read by hapLRT
MaxRecords == 13
\* records of a stream read by iHS or meltEHH
MaxRecordsEhh == 3
\* records of a stream that are not plain
MaxOdd == 2
\* hapLRT reports a sequence at a name change only when its matrix is longer
SeqLenMin == 10
\* globalOpts.af, the default frequency cut-off of iHS and meltEHH
DefaultAf == Rat(5, 100)

SeqNames == <<"s1", "s2">>

\* allele frequencies a decoder returns: around the cut-offs and between them
AfValues == {Rat(1, 100), Rat(5, 100), Rat(1, 2), Rat(95, 100), Rat(99, 100)}

\* the state of the chosen genotype field over the samples of a record: every
\* sample has three values, or one sample (at) has none, or has fewer
FieldStates == {"ok", "missing", "short"}

\* the position of the n-th record of the stream
RecordPos(n) == 20000 + 1000 * (n - 1)

\* a phased biallelic record of sequence sq with a summary that passes every
\* filter
PlainRecord(sq, n) ==
  [phased |-> TRUE, nalleles |-> 2, af |-> Rat(1, 2), nref |-> 2, nalt |-> 2,
   fields |-> "ok", at |-> -1, seq |-> sq, pos |-> RecordPos(n)]

\* the sequence names a record after one of sq can carry: sq or the next one
NextSeqs(sq) ==
  LET k == CHOOSE i \in 1..Len(SeqNames) : SeqNames[i] = sq
  IN {SeqNames[i] : i \in k..Min(k + 1, Len(SeqNames))}

\* the records that can follow in the stream: a plain record or one that
\* differs from it in one respect; hapLRT alone looks at the genotype field
\* itself and reads past the end of a sequence (iHS and meltEHH read the
\* records of one region)
NextRecords(d, n, sq) ==
  LET p == PlainRecord(sq, n)
      one == {p, [p EXCEPT !.phased = FALSE], [p EXCEPT !.nalleles = 3],
              [p EXCEPT !.nref = 1], [p EXCEPT !.nalt = 1]}
             \cup {[p EXCEPT !.af = a] : a \in AfValues}
             \cup (IF d = "hapLRT"
                   THEN {[p EXCEPT !.fields = f, !.at = s] :
                           f \in FieldStates \ {"ok"}, s \in 0..(NSamples - 1)}
                   ELSE {})
  IN {[v EXCEPT !.seq = q] :
        v \in one, q \in IF d = "hapLRT" THEN NextSeqs(sq) ELSE {sq}}

\* the phased call of the i-th selected sample in the n-th record
SampleCall(i, n) == <<LeadingSites(i, 1, n)[n], LeadingSites(i, 2, n)[n]>>

\* the samples the population object of the record holds, in file order
Selected(c) == Ascending(c.target \cup c.background)

\* the calls of a record, one per sample of the population object
Calls(c, n) == [i \in 1..Len(Selected(c)) |-> SampleCall(i, n)]

\* the row of the matrix a selected sample writes to: indexi of main
RowOf(c, s) == Cardinality({x \in c.target \cup c.background : x < s})

\* iti and ibi of hapLRT
GroupRows(c, group) == [k \in 1..Cardinality(group) |-> RowOf(c, Ascending(group)[k])]

\* loadPhased: each call is appended to the row of its place in the
\* population
loadPhased(H, calls) ==
  [i \in DOMAIN H |->
     IF i <= Len(calls)
     THEN [first |-> Append(H[i].first, calls[i][1]),
           second |-> Append(H[i].second, calls[i][2])]
     ELSE H[i]]

\* (mutation) the phase of a record is never looked at
UnphasedNever(v) == FALSE

\* the test the loop leaves the process on
Unphased(v) == ~v.phased

\* (mutation) the cut-off as the help text words it: only frequencies below
\* it are skipped
RejectedBelow(v, af) == RLt(v.af, af) \/ v.nref < 2 \/ v.nalt < 2

\* the load filter of iHS and meltEHH
Rejected(v, af) == RLe(v.af, af) \/ v.nref < 2 \/ v.nalt < 2

\* okayGenotypeLikelihoods
TypeNames == {"GT", "PL", "GL", "GP"}

\* a command line read against the variant file it names.  target and
\* background are the zero-based sample indices given; type is the genotype
\* field ("" when the option is absent); file is "ok", "none" (no file named)
\* or "unreadable"; region is "none" (no region named), "unknown" (it matches
\* no contig of the file's header) or "valid"
Config(target, background, focal, type, file, region) ==
  [nsamples |-> NSamples, target |-> target, background |-> background,
   focal |-> focal, type |-> type, file |-> file, region |-> region]

\* iHS and meltEHH ask for a region, hapLRT reads the whole file without one
DefaultRegion(d) == IF d = "hapLRT" THEN "none" ELSE "valid"

\* the command lines that start a run: iHS and meltEHH with two or more
\* target samples of the file, meltEHH with a focal position, hapLRT with two
\* disjoint groups, the first sample of the file in the target group
FullConfigs(d) ==
  LET all == 0..(NSamples - 1)
  IN IF d = "hapLRT"
     THEN {Config(g[1], g[2], 0, "GT", "ok", DefaultRegion(d)) :
             g \in {h \in {x \in SUBSET all : 0 \in x} \X ((SUBSET all) \ {{}}) :
                      h[1] \cap h[2] = {}}}
     ELSE {Config(tg, {}, fc, "GT", "ok", DefaultRegion(d)) :
             tg \in {x \in SUBSET all : Cardinality(x) >= 2},
             fc \in IF d = "meltEHH" THEN {RecordPos(1), RecordPos(2)} ELSE {0}}

\* one command line of each driver
BaseConfig(d) ==
  Config(IF d = "hapLRT" THEN {0} ELSE {0, 1}, IF d = "hapLRT" THEN {1} ELSE {},
         IF d = "meltEHH" THEN RecordPos(1) ELSE 0, "GT", "ok", DefaultRegion(d))

\* the command lines that differ from it in one option: the type (a missing
\* or unknown one; hapLRT also with PL), the file, the region, or (iHS and
\* meltEHH) a target group of one sample
OddConfigs(d) ==
  {[BaseConfig(d) EXCEPT !.type = ty] :
     ty \in {"", "XX"} \cup (IF d = "hapLRT" THEN {"PL"} ELSE {})}
    \cup {[BaseConfig(d) EXCEPT !.file = f] : f \in {"none", "unreadable"}}
    \cup {[BaseConfig(d) EXCEPT !.region = r] : r \in {"none", "unknown", "valid"}}
    \cup (IF d = "hapLRT" THEN {} ELSE {[BaseConfig(d) EXCEPT !.target = {0}]})

Configs(d) == FullConfigs(d) \cup OddConfigs(d)

\* what setRegion can return: false for a region that matches no contig,
\* true or (no variant lies in it) false for a valid one
SetRegionResults(c) ==
  IF c.region = "unknown" THEN {FALSE}
  ELSE IF c.region = "none" THEN {TRUE}
  ELSE BOOLEAN

\* the exit code main leaves with before the record loop, -1 when it goes on
\* to the loop; regionSet is what setRegion returned
StartupExit(d, c, regionSet) ==
  IF c.type = "" THEN 1
  ELSE IF c.type \notin TypeNames THEN 1
  ELSE IF c.file = "none" THEN 1
  ELSE IF d = "hapLRT"
  THEN IF c.region # "none" /\ ~regionSet
       THEN (IF c.region = "valid" THEN 0 ELSE 1)
       ELSE IF c.file = "unreadable" THEN 1 ELSE -1
  ELSE IF Cardinality(c.target) < 2 THEN 1
  ELSE IF c.region = "none" THEN 1
  ELSE IF ~regionSet THEN (IF d = "iHS" THEN 0 ELSE 1)
  ELSE IF c.file = "unreadable" THEN 1
  ELSE -1

\* a map file of two known points below every record of the stream
LowMapFile == <<MapLine(SeqNames[1], Zero, 2), MapLine(SeqNames[1], One, 4)>>

\* the map file a run is given: none, or (iHS and meltEHH, which have the
\* option) LowMapFile with the one command line of the driver on one thread
MainMapFiles(d, c, n) ==
  IF d # "hapLRT" /\ c = BaseConfig(d) /\ n = 1 THEN {NoFile, LowMapFile}
  ELSE {NoFile}

InitMain ==
  /\ drv \in {"iHS", "meltEHH", "hapLRT"}
  /\ cfg \in Configs(drv)
  /\ haplotypes = <<>>
  /\ positions = <<>>
  /\ afs = <<>>
  /\ geneticMap = EmptyMap
  /\ seqid = IF drv = "hapLRT" THEN "NA" ELSE ""
  /\ cs = Idle
  /\ threads \in (IF drv = "iHS" THEN 1..NThreads ELSE {1})
  /\ wk = [w \in Workers |-> Parked]
  /\ nextIter = 0
  /\ lock = 0
  /\ lockInit = FALSE
  /\ computed = EmptyMap
  /\ out = <<>>
  /\ exitCode = -1
  /\ pc = "start"
  /\ var = NoRecord
  /\ nread = 0
  /\ nodd = 0
  /\ mapFile \in MainMapFiles(drv, cfg, threads)
  /\ probe = NoProbe
  /\ fault = FALSE

\* main from the checks of the options to the allocation of the matrix: one
\* row per target sample (iHS, meltEHH), one per sample of the file (hapLRT)
Startup ==
  /\ pc = "start"
  /\ exitCode = -1
  /\ \E regionSet \in SetRegionResults(cfg) :
       LET e == StartupExit(drv, cfg, regionSet)
       IN IF e # -1
          THEN /\ exitCode' = e
               /\ UNCHANGED <<pc, haplotypes>>
          ELSE /\ pc' = "read"
               /\ haplotypes' = [i \in 1..(IF drv = "hapLRT" THEN cfg.nsamples
                                           ELSE Cardinality(cfg.target)) |->
                                   [first |-> <<>>, second |-> <<>>]]
               /\ UNCHANGED exitCode
  /\ UNCHANGED <<mapVars, drv, positions, afs, geneticMap, seqid, cs, threads,
                 wk, nextIter, lock, lockInit, computed, out, cfg, var, nread,
                 nodd>>

\* the record getNextVariant hands to the loop
Reads(v) ==
  /\ nread < (IF drv = "hapLRT" THEN MaxRecords ELSE MaxRecordsEhh)
  /\ LET plain == v = PlainRecord(IF nread = 0 THEN SeqNames[1] ELSE var.seq,
                                  nread + 1)
     IN /\ plain \/ nodd < MaxOdd
        /\ nodd' = IF plain THEN nodd ELSE nodd + 1
  /\ var' = v
  /\ nread' = nread + 1

\* one pass of the record loop of iHS and of meltEHH
EhhRecord ==
  /\ pc = "read"
  /\ exitCode = -1
  /\ drv \in {"iHS", "meltEHH"}
  /\ \E v \in NextRecords(drv, nread + 1, IF nread = 0 THEN SeqNames[1] ELSE var.seq) :
       /\ Reads(v)
       /\ seqid' = v.seq
       /\ IF Unphased(v)
          THEN /\ exitCode' = 1
               /\ UNCHANGED <<haplotypes, positions, afs>>
          ELSE /\ UNCHANGED exitCode
               /\ IF v.nalleles > 2 \/ Rejected(v, DefaultAf)
                  THEN UNCHANGED <<haplotypes, positions, afs>>
                  ELSE /\ positions' = Append(positions, v.pos)
                       /\ afs' = Append(afs, v.af)
                       /\ haplotypes' = loadPhased(haplotypes, Calls(cfg, nread + 1))
  /\ UNCHANGED <<mapVars, drv, geneticMap, cs, threads, wk, nextIter, lock, lockInit,
                 computed, out, pc, cfg>>

\* the exit status of a process ended by SIGSEGV
Crash == 139

\* what front() and back() of an empty position series can yield
GarbageEnds == {0, 3, 20000}

\* loadGeneticMap(start, end) as main sees it: the map, whether an element of
\* an empty series was read, and the exit code (-1: main goes on)
MapLoaded(file, gm, sq, start, end, faulty) ==
  LET r == loadGeneticMap(file, gm, sq, start, end)
  IN [gm |-> r.gm, fault |-> faulty, exit |-> IF r.fatal THEN 1 ELSE -1]

\* the step of main between the record loop and calc: nothing without a map
\* file; with one, loadGeneticMap(positions.front(), positions.back()).
\* front() and back() of an empty series are undefined: the process crashes
\* or the load runs with whatever the reads yield
MapLoads(file, gm, sq, pos) ==
  IF file = NoFile THEN {[gm |-> gm, fault |-> FALSE, exit |-> -1]}
  ELSE IF pos = <<>>
  THEN {[gm |-> gm, fault |-> TRUE, exit |-> Crash]}
         \cup {MapLoaded(file, gm, sq, s, e, TRUE) : s, e \in GarbageEnds}
  ELSE {MapLoaded(file, gm, sq, pos[1], pos[Len(pos)], FALSE)}

\* the stream of iHS has ended: the map is loaded if a file was given, calc
\* starts
IhsEnd ==
  /\ pc = "read"
  /\ exitCode = -1
  /\ drv = "iHS"
  /\ \E m \in MapLoads(mapFile, geneticMap, seqid, positions) :
       /\ geneticMap' = m.gm
       /\ fault' = m.fault
       /\ exitCode' = m.exit
       /\ pc' = IF m.exit = -1 THEN "calc" ELSE pc
  /\ UNCHANGED <<mapFile, probe, drv, haplotypes, positions, afs, seqid, cs,
                 threads, wk, nextIter, lock, lockInit, computed, out, cfg,
                 var, nread, nodd>>

\* the stream of meltEHH has ended: the map is loaded if a file was given,
\* then calc, clearHaplotypes and exit(0), or the exit(1) inside calcEhh
MeltEnd ==
  /\ pc = "read"
  /\ exitCode = -1
  /\ drv = "meltEHH"
  /\ \E m \in MapLoads(mapFile, geneticMap, seqid, positions) :
       /\ geneticMap' = m.gm
       /\ fault' = m.fault
       /\ IF m.exit # -1
          THEN /\ exitCode' = m.exit
               /\ UNCHANGED <<out, haplotypes, pc>>
          ELSE \E g \in Garbage(positions) :
                 LET r == MeltCalc(haplotypes, positions, m.gm, Len(haplotypes),
                                   cfg.focal, g)
                 IN /\ out' = out \o r.lines
                    /\ exitCode' = IF r.fatal THEN 1 ELSE 0
                    /\ haplotypes' = IF r.fatal THEN haplotypes
                                     ELSE clearHaplotypes(haplotypes)
                    /\ pc' = "calc"
  /\ UNCHANGED <<mapFile, probe, drv, positions, afs, seqid, cs, threads, wk,
                 nextIter, lock, lockInit, computed, cfg, var, nread, nodd>>

\* (mutation) the genotype field is looked at in the samples of the two
\* groups only
FieldFaultInGroups(c, v) ==
  /\ v.at \in c.target \cup c.background
  /\ \/ v.fields = "missing"
     \/ v.fields = "short" /\ c.type \in {"GL", "GP", "PL"}

\* the tests of the genotype field over the samples of the file: a sample
\* without a value, or with other than three values of a likelihood type
FieldFault(c, v) ==
  \/ v.fields = "missing"
  \/ v.fields = "short" /\ c.type \in {"GL", "GP", "PL"}

\* one pass of the record loop of hapLRT
LrtRecord ==
  /\ pc = "read"
  /\ exitCode = -1
  /\ drv = "hapLRT"
  /\ \E v \in NextRecords(drv, nread + 1, IF nread = 0 THEN SeqNames[1] ELSE var.seq) :
       /\ Reads(v)
       /\ IF Unphased(v)
          THEN /\ exitCode' = 1
               /\ UNCHANGED <<haplotypes, positions, afs, seqid, out>>
          ELSE IF v.nalleles > 2
          THEN UNCHANGED <<haplotypes, positions, afs, seqid, out, exitCode>>
          ELSE
          LET change == seqid # v.seq
              report == change /\ Len(haplotypes[1].first) > SeqLenMin
              H1 == IF change THEN clearHaplotypes(haplotypes) ELSE haplotypes
              pos1 == IF change THEN <<>> ELSE positions
              afs1 == IF change THEN <<>> ELSE afs
              keep == ~FieldFault(cfg, v)
                        /\ ~(RGt(v.af, Rat(95, 100)) \/ RLt(v.af, Rat(5, 100)))
          IN /\ out' = IF report
                       THEN out \o LrtCalc(haplotypes, positions,
                                           GroupRows(cfg, cfg.target),
                                           GroupRows(cfg, cfg.background), seqid)
                       ELSE out
             /\ seqid' = v.seq
             /\ exitCode' = IF FieldFault(cfg, v) THEN 1 ELSE -1
             /\ positions' = IF keep THEN Append(pos1, v.pos) ELSE pos1
             /\ afs' = IF keep THEN Append(afs1, v.af) ELSE afs1
             /\ haplotypes' = IF keep THEN loadPhased(H1, Calls(cfg, nread + 1))
                              ELSE H1
  /\ UNCHANGED <<mapVars, drv, geneticMap, cs, threads, wk, nextIter, lock, lockInit,
                 computed, pc, cfg>>

\* the stream of hapLRT has ended: the last sequence is reported, return 0
LrtEnd ==
  /\ pc = "read"
  /\ exitCode = -1
  /\ drv = "hapLRT"
  /\ out' = out \o LrtCalc(haplotypes, positions, GroupRows(cfg, cfg.target),
                           GroupRows(cfg, cfg.background), seqid)
  /\ exitCode' = 0
  /\ pc' = "calc"
  /\ UNCHANGED <<mapVars, engineVars, cs, threads, wk, nextIter, lock, lockInit,
                 computed, cfg, var, nread, nodd>>

NextMain ==
  \/ Startup
  \/ EhhRecord
  \/ IhsEnd
  \/ MeltEnd
  \/ LrtRecord
  \/ LrtEnd
  \/ NextCalc

SpecMain == InitMain /\ [][NextMain]_vars

-----------------------------------------------------------------------------
(* hapLRT main on its own: the row indices of the two groups.              *)

\* samples of the largest file, and the sample indices a list can name
MaxFile == 3

\* the loop of main over the samples of the file: a sample named in the
\* target list takes the next index into iti, then one named in the
\* background list takes the next index into ibi
RECURSIVE GroupLoop(_, _, _, _, _)
GroupLoop(c, index, indexi, ti, bi) ==
  IF index >= c.nsamples THEN [iti |-> ti, ibi |-> bi]
  ELSE LET inT == index \in c.target
           inB == index \in c.background
           mid == indexi + (IF inT THEN 1 ELSE 0)
       IN GroupLoop(c, index + 1, mid + (IF inB THEN 1 ELSE 0),
                    IF inT THEN Append(ti, indexi) ELSE ti,
                    IF inB THEN Append(bi, mid) ELSE bi)

\* the command lines of hapLRT over files of 1 to MaxFile samples: any two
\* lists of indices, disjoint or not, naming samples of the file or not
GroupConfigs ==
  {[Config(tg, bg, 0, "GT", "ok", "none") EXCEPT !.nsamples = n] :
     tg \in SUBSET (0..(MaxFile - 1)), bg \in SUBSET (0..(MaxFile - 1)),
     n \in 1..MaxFile}

InitGroups ==
  /\ drv = "hapLRT"
  /\ cfg \in GroupConfigs
  /\ haplotypes = <<>>
  /\ positions = <<>>
  /\ afs = <<>>
  /\ geneticMap = EmptyMap
  /\ cs = Idle
  /\ seqid = "NA"
  /\ threads = 1
  /\ wk = <<>>
  /\ nextIter = 0
  /\ lock = 0
  /\ lockInit = FALSE
  /\ computed = <<>>
  /\ out = <<>>
  /\ exitCode = -1
  /\ pc = "groups"
  /\ var = NoRecord
  /\ nread = 0
  /\ nodd = 0
  /\ mapFile = NoFile
  /\ probe = NoProbe
  /\ fault = FALSE

\* main from the loop over the samples to the allocation of the matrix
BuildGroups ==
  /\ pc = "groups"
  /\ LET g == GroupLoop(cfg, 0, 0, <<>>, <<>>)
     IN probe' = [fn |-> "groups", iti |-> g.iti, ibi |-> g.ibi]
  /\ haplotypes' = [i \in 1..cfg.nsamples |-> [first |-> <<>>, second |-> <<>>]]
  /\ pc' = "read"
  /\ UNCHANGED <<drv, positions, afs, geneticMap, seqid, cs, calcVars, cfg,
                 var, nread, nodd, mapFile, fault>>

NextGroups == BuildGroups

SpecGroups == InitGroups /\ [][NextGroups]_vars

-----------------------------------------------------------------------------
(* Claims about the window engine.                                         *)

InCall == cs.ret # -2

\* C1: calcEhh never stores a homozygosity above 1 (a value above 1 ends the
\* process instead), and for an anchor allele carried by at least two
\* chromosome copies every window integrate builds, in either direction,
\* yields a value in [0, 1], so the fatal exit is never taken.
C1_EhhInUnitInterval ==
  InCall =>
    /\ cs.nwin >= 1 => ~RGt(cs.curW, One)
    /\ (cs.nwin >= 1 /\ cs.denom >= 2) =>
         /\ IsNum(cs.curW)
         /\ RLe(Zero, cs.curW)
         /\ RLe(cs.curW, One)
    /\ cs.denom >= 2 => ~cs.fatal

\* a leftward window of at least two sites whose value lies strictly inside (0, 1)
C1_Witness ==
  /\ InCall
  /\ ~cs.dir
  /\ cs.denom >= 2
  /\ cs.nwin >= 2
  /\ RLt(Zero, cs.curW)
  /\ RLt(cs.curW, One)

\* C2: within one integrate call the homozygosity values of successive
\* windows never increase.
C2_EhhNonIncreasing ==
  (InCall /\ cs.nwin >= 2) => RLe(cs.curW, cs.prevW)

\* a third window whose value is strictly below the second window's and not yet 0
C2_Witness ==
  /\ InCall
  /\ cs.nwin >= 3
  /\ RLt(cs.curW, cs.prevW)
  /\ RLt(Zero, cs.curW)

-----------------------------------------------------------------------------
(* Claims about iHS calc.                                                  *)

InRegion(w) == wk[w].pc \in {"write", "unlock"}

\* the parallel loop has ended and calc is about to return
AllDone == exitCode = -1 /\ \A w \in Workers : wk[w].pc = "done"

\* the places of standard output holding column k of site s
Tokens(s, k) == {i \in 1..Len(out) : out[i].site = s /\ out[i].col = k}

\* the complete rows on standard output
RowsWritten ==
  {[k \in 1..RowLen |-> out[i + k - 1].val] :
     i \in {j \in 1..Len(out) : j % RowLen = 1 /\ j + RowLen - 1 <= Len(out)}}

C4_RowSetOfSerialRun ==
  AllDone =>
    \A g \in Garbage(positions) :
      RowsWritten = SerialRows(haplotypes, positions, afs, geneticMap, seqid, g)

\* the number of the given integrate calls of a site that did not return 0
Failed(rec, calls) == Cardinality({k \in calls : rec.rets[k] # 0})

\* C6: in every iHS row column 7 is the number of the reference allele's two
\* integrations that failed and column 8 that of the alternative allele's;
\* each is 0, 1 or 2, and 0 only when both integrations decayed normally.
C6_FailureCounters ==
  \A i \in 1..Len(out) :
    /\ out[i].col = 7 =>
         /\ out[i].val \in {0, 1, 2}
         /\ out[i].val = Failed(computed[out[i].site], {1, 2})
    /\ out[i].col = 8 =>
         /\ out[i].val \in {0, 1, 2}
         /\ out[i].val = Failed(computed[out[i].site], {3, 4})

\* a row with counter 0 (both integrations decayed) and a row with a counter
\* above 0 are on standard output
C6_Witness ==
  \E i, j \in 1..Len(out) :
    /\ out[i].col \in {7, 8} /\ out[i].val = 0
    /\ out[j].col \in {7, 8} /\ out[j].val >= 1

\* C7: iHS calc never starts a second row for a site, and when its loop has
\* ended every retained site has exactly one row on standard output if both
\* its integrals are at least 0.0001, and none otherwise.
C7_OneRowIffBothIntegrals ==
  /\ \A s \in DOMAIN computed : Cardinality(Tokens(s, 1)) <= 1
  /\ AllDone =>
       \A s \in 0..(Len(positions) - 1) :
         /\ s \in DOMAIN computed
         /\ \A k \in 1..RowLen :
              Cardinality(Tokens(s, k)) =
                IF /\ RLe(Rat(1, 10000), computed[s].ihhR)
                   /\ RLe(Rat(1, 10000), computed[s].ihhA)
                THEN 1 ELSE 0

\* the loop has ended with one site reported and another, whose reference
\* integral is above 0 but below 0.0001, left out
C7_Witness ==
  /\ AllDone
  /\ \E s, t \in DOMAIN computed :
       /\ Tokens(s, RowLen) # {}
       /\ Tokens(t, 1) = {}
       /\ RLt(Zero, computed[t].ihhR)
       /\ RLe(Rat(1, 10000), computed[t].ihhA)

\* C8: in each iHS row column 4 is the integral of the alternative allele
\* and column 5 the integral of the reference allele.
C8_ColumnsAsDocumented ==
  \A i \in 1..Len(out) :
    /\ out[i].col = 4 => out[i].val = computed[out[i].site].ihhA
    /\ out[i].col = 5 => out[i].val = computed[out[i].site].ihhR

-----------------------------------------------------------------------------
(* Claims about the record loops.                                          *)

\* C5: in iHS, hapLRT and meltEHH the step that reads an unphased record
\* ends the process with exit code 1 and writes nothing to standard output,
\* and nothing is written once the process has ended that way.
C5_UnphasedAborts ==
  [][/\ (nread' = nread + 1 /\ ~var'.phased) => (exitCode' = 1 /\ out' = out)
     /\ exitCode = 1 => out' = out]_vars

\* hapLRT has reported a sequence and then left on an unphased record
C5_Witness ==
  /\ drv = "hapLRT"
  /\ nread > 0
  /\ ~var.phased
  /\ exitCode = 1
  /\ out # <<>>

C10_MatrixAligned ==
  (pc = "read" /\ exitCode = -1) =>
    /\ Len(afs) = Len(positions)
    /\ \A i \in DOMAIN haplotypes :
         /\ Len(haplotypes[i].first) = Len(positions)
         /\ Len(haplotypes[i].second) = Len(positions)

-----------------------------------------------------------------------------
(* Claims about the genetic distance.                                      *)

\* a pass of the loop of the integrate call at hand has called gDist
Measured == InCall /\ cs.last # NoStep

\* C11: gDist never ends the process; when either position handed to it has
\* no entry in the genetic map (always so without a map file) integrate works
\* with the constant 0.001 for that step, and when both have entries with
\* the absolute difference of their centimorgan values.
C11_GDistFallback ==
  Measured =>
    /\ cs.ret # -3
    /\ geneticMap = EmptyMap => cs.last.gd = Rat(1, 1000)
    /\ cs.last.gd =
         IF cs.last.qa \in DOMAIN geneticMap /\ cs.last.qb \in DOMAIN geneticMap
         THEN RAbsDiff(geneticMap[cs.last.qa], geneticMap[cs.last.qb])
         ELSE Rat(1, 1000)

\* one integrate call under a loaded map has had a step with both positions
\* in the map and then a step with a position the map does not hold
C11_Witness ==
  /\ Measured
  /\ geneticMap # EmptyMap
  /\ cs.hits >= 1
  /\ cs.misses >= 1
  /\ cs.last.gd = Rat(1, 1000)
  /\ cs.last.qb \notin DOMAIN geneticMap

\* the span handed to loadGeneticMap contains the known points of the file
Covered ==
  /\ mapFile # NoFile
  /\ positions[1] <= FirstPoint(mapFile, seqid).pos
  /\ LastPoint(mapFile, seqid).pos <= positions[Len(positions)]

\* the centimorgan value at p by linear interpolation between the known
\* points of the file next to p
Interpolated(file, sq, p) ==
  LET K == {file[i] : i \in KnownPoints(file, sq)}
      lo == CHOOSE l \in K : l.pos <= p /\ \A m \in K : m.pos <= p => m.pos <= l.pos
      hi == CHOOSE l \in K : p <= l.pos /\ \A m \in K : p <= m.pos => l.pos <= m.pos
  IN IF lo.pos = hi.pos THEN lo.cm
     ELSE RAdd(lo.cm, RMul(RAbsDiff(hi.cm, lo.cm),
                           Rat(p - lo.pos, hi.pos - lo.pos)))

\* C12: after loadGeneticMap over a span that contains the known points of
\* the file, every position from the first known point through the last has
\* an entry in the map, and gDist on two such positions finds both and yields
\* the difference of their linearly interpolated centimorgan values.
C12_MapCoversKnownSpan ==
  (pc = "loaded" /\ Covered) =>
    LET known == FirstPoint(mapFile, seqid).pos..LastPoint(mapFile, seqid).pos
    IN /\ exitCode = -1
       /\ \A p \in known : p \in DOMAIN geneticMap
       /\ (probe # NoProbe /\ probe.a \in known /\ probe.b \in known) =>
            /\ probe.ok
            /\ probe.gd = RAbsDiff(Interpolated(mapFile, seqid, probe.a),
                                   Interpolated(mapFile, seqid, probe.b))

-----------------------------------------------------------------------------
(* Claims about hapLRT.                                                    *)

\* C13: in every row hapLRT writes, the sign (column 6) is 1 when the mean
\* target block length (column 3) is strictly greater than the mean
\* background block length (column 4), and -1 otherwise, equality included.
C13_SignOfLongerGroup ==
  drv = "hapLRT" =>
    \A i \in 1..Len(out) :
      out[i].val[6] = IF RGt(out[i].val[3], out[i].val[4]) THEN 1 ELSE -1

-----------------------------------------------------------------------------
(* Claims about the start and the end of a run.                            *)

\* C14: in iHS, hapLRT and meltEHH a run whose requested region matches no
\* contig of the header of the input never gets to the record loop, and
\* when it has ended its exit code is 1.
C14_UnknownRegionExits1 ==
  cfg.region = "unknown" =>
    /\ pc = "start"
    /\ exitCode \in {-1, 1}

\* the samples of the file a group of given indices selects
SamplesOf(c, group) == group \cap 0..(c.nsamples - 1)

\* the target group, or for hapLRT either group, selects fewer than two
\* samples of the file
GroupTooSmall ==
  \/ Cardinality(SamplesOf(cfg, cfg.target)) < 2
  \/ drv = "hapLRT" /\ Cardinality(SamplesOf(cfg, cfg.background)) < 2

\* C16: in every driver a run whose target group (or, for hapLRT, background
\* group) selects fewer than two samples of the input never gets to the
\* record loop, reads no record, and when it has ended its exit code is 1.
C16_SmallGroupExits1 ==
  GroupTooSmall =>
    /\ pc = "start"
    /\ nread = 0
    /\ exitCode \in {-1, 1}

\* no record of the stream was retained, and none ended the run by itself:
\* the options pass every test, the region is a valid one, the position
\* series is empty and no sequence was put aside, and the record read last
\* (if any) is phased with its genotype field intact
NothingRetained ==
  /\ cfg.region = "valid"
  /\ cfg.type \in TypeNames
  /\ cfg.file = "ok"
  /\ drv # "hapLRT" => Cardinality(cfg.target) >= 2
  /\ positions = <<>>
  /\ seqid \in {"", "NA", SeqNames[1]}
  /\ var # NoRecord => var.phased /\ var.fields = "ok"

\* C15: when the requested region is valid but no record is read or
\* retained, the run of each driver, once ended, has exit code 0, has written
\* no statistic row and has read no element of the empty position series,
\* with or without a genetic map file.
C15_EmptyRegionIsNoOp ==
  (NothingRetained /\ exitCode # -1) =>
    /\ exitCode = 0
    /\ out = <<>>
    /\ ~fault

-----------------------------------------------------------------------------
(* Claims about the genotype fields of hapLRT.                             *)

\* C17: in hapLRT, a pass of the record loop over a phased biallelic record
\* in which some sample of the file, inside a group or not, has no value of
\* the chosen field, or has other than three values of a PL, GL or GP field,
\* ends the process with exit code 1 and appends nothing to the position
\* series, the frequency series or a row of the matrix.
C17_BadFieldAborts ==
  [][(/\ drv = "hapLRT"
      /\ nread' = nread + 1
      /\ var'.phased
      /\ var'.nalleles = 2
      /\ \/ var'.fields = "missing"
         \/ var'.fields = "short" /\ cfg.type \in {"PL", "GL", "GP"})
     => /\ exitCode' = 1
        /\ Len(positions') <= Len(positions)
        /\ Len(afs') <= Len(afs)
        /\ \A i \in DOMAIN haplotypes :
             /\ Len(haplotypes'[i].first) <= Len(haplotypes[i].first)
             /\ Len(haplotypes'[i].second) <= Len(haplotypes[i].second)]_vars

\* a run with a PL field ended on a record, not the first retained, in which
\* a sample outside both groups has too few values
C17_Witness ==
  /\ drv = "hapLRT"
  /\ cfg.type = "PL"
  /\ exitCode = 1
  /\ var.phased
  /\ var.nalleles = 2
  /\ var.fields = "short"
  /\ var.at \notin cfg.target \cup cfg.background
  /\ Len(positions) >= 1

-----------------------------------------------------------------------------
(* Claims about the outcomes of integrate.                                 *)

\* the decay thresholds as documented
DocThreshold == IF drv = "iHS" THEN Rat(5, 100) ELSE Rat(1, 100)

\* the window of the call has run off an end of the matrix
RanOff == cs.start < 0 \/ cs.end > MaxL(haplotypes)

\* the pass the call of iHS ended in measured a gap above 10,000 bp
GapTooWide == drv = "iHS" /\ cs.last # NoStep /\ cs.last.dist > 10000

\* C18: a call of integrate for an anchor allele carried by two or more
\* copies at the focal site never returns 10 and never ends the process; it
\* returns 0 only when the window value computed last is at or below the
\* threshold of the driver (0.05 iHS, 0.01 meltEHH), and 1 only when the
\* window has run off an end of the matrix, or iHS measured a gap above
\* 10,000 bp, with every window value before above the threshold.
C18_ReturnsDecayOrFailure ==
  (InCall /\ cs.denom >= 2) =>
    /\ cs.ret \in {-1, 0, 1}
    /\ cs.ret = 0 => cs.nwin >= 1 /\ RLe(cs.curW, DocThreshold)
    /\ cs.ret = 1 =>
         /\ RanOff \/ GapTooWide
         /\ cs.nwin >= 1 => RGt(cs.curW, DocThreshold)
    /\ (cs.ret = -1 /\ cs.nwin >= 1) => RGt(cs.curW, DocThreshold)

\* a call of iHS that failed on a wide gap inside the matrix after two or
\* more windows
C18_Witness ==
  /\ InCall
  /\ cs.denom >= 2
  /\ cs.ret = 1
  /\ cs.nwin >= 2
  /\ GapTooWide
  /\ ~RanOff
  /\ ~cs.oob

\* the distance between the two positions handed to gDist in the pass: the
\* two newest boundary positions of the side that is extended
BoundaryGap == Abs(cs.last.qa - cs.last.qb)

\* C19: in iHS integrate, in both directions, the distance a pass tests is
\* the one between the two newest boundary positions of the side that is
\* extended: above 10,000 bp the call returns 1 and adds no area, above
\* 5,000 bp the area of the pass is added times 5000/distance, otherwise it
\* is added as it is.
C19_GapOfExtendedSide ==
  (drv = "iHS" /\ Measured /\ ~cs.oob) =>
    IF BoundaryGap > 10000
    THEN cs.ret = 1 /\ cs.last.added = Zero
    ELSE IF BoundaryGap > 5000
    THEN cs.last.added = RMul(cs.last.area, Rat(5000, BoundaryGap))
    ELSE cs.last.added = cs.last.area

-----------------------------------------------------------------------------
(* Claims about the block lengths of hapLRT.                               *)

\* the sites at which two copies agree without a break, walking from site
\* i (1-based) in steps of step to the end of the copies
RECURSIVE MatchRun(_, _, _, _)
MatchRun(cur, alt, i, step) ==
  IF i < 1 \/ i > Len(cur) THEN 0
  ELSE IF cur[i] # alt[i] THEN 0
  ELSE 1 + MatchRun(cur, alt, i + step, step)

\* the block length when each direction stops at its own first mismatch
LengthPerSide(cur, alt, core) ==
  IF cur[core + 1] # alt[core + 1] THEN 0
  ELSE 1 + MatchRun(cur, alt, core, -1) + MatchRun(cur, alt, core + 2, 1)

\* C20: findLengths credits to two copies compared around a focal site the
\* length 0 when they differ at the site, and otherwise 1 plus the matching
\* sites to the left up to the first mismatch on the left plus the matching
\* sites to the right up to the first mismatch on the right.
C20_EachSideStopsAlone ==
  probe # NoProbe =>
    LET expected == LengthPerSide(haplotypes[1].first, haplotypes[1].second,
                                  probe.core)
    IN probe.lengths = <<expected, expected>>

-----------------------------------------------------------------------------
(* Claims about the values of the genetic map.                             *)

\* C21: after loadGeneticMap, every position the map holds from the first
\* known point of the file up to (not including) the last carries the value
\* linearly interpolated between the two known points around it, and a known
\* point carries its own centimorgan value, also when the first line of the
\* file lies before the queried start and was skipped.
C21_EntriesInterpolated ==
  (pc = "loaded" /\ mapFile # NoFile) =>
    \A p \in DOMAIN geneticMap :
      (FirstPoint(mapFile, seqid).pos <= p /\ p < LastPoint(mapFile, seqid).pos)
        => geneticMap[p] = Interpolated(mapFile, seqid, p)

-----------------------------------------------------------------------------
(* Claims about the sequences of hapLRT.                                   *)

\* the series q begins with the series p
StartsWith(q, p) == Len(q) >= Len(p) /\ SubSeq(q, 1, Len(p)) = p

\* C22: in hapLRT, a step that puts the retained sites of a sequence aside
\* (the sequence name changes) or ends the stream writes one row for each
\* retained site of that sequence, in site order, however many they are.
C22_EverySequenceReported ==
  [][(/\ drv = "hapLRT"
      /\ pc = "read"
      /\ ~StartsWith(positions', positions) \/ pc' = "calc")
     => /\ Len(out') = Len(out) + Len(positions)
        /\ \A k \in 1..Len(positions) :
             out'[Len(out) + k].val[2] = positions[k]]_vars

-----------------------------------------------------------------------------
(* Claims about the trace of meltEHH.                                      *)

\* C23: in meltEHH, integrate called for an allele carried by two or more
\* copies at the focal site has written one trace line for every window it
\* has computed, and the line written last carries the value of the window
\* computed last, the anchor allele and the direction of the call.
C23_TraceOfCurrentWindow ==
  (drv = "meltEHH" /\ InCall /\ cs.denom >= 2) =>
    /\ Len(cs.trace) = cs.nwin
    /\ cs.trace # <<>> =>
         /\ cs.trace[Len(cs.trace)].ehh = cs.curW
         /\ cs.trace[Len(cs.trace)].ref = cs.ref
         /\ cs.trace[Len(cs.trace)].dir = cs.dir

-----------------------------------------------------------------------------
(* Claims about a matrix of identical copies.                              *)

\* every chromosome copy of the matrix is the same
AllCopiesEqual ==
  \A i \in DOMAIN haplotypes :
    /\ haplotypes[i].first = haplotypes[1].first
    /\ haplotypes[i].second = haplotypes[1].first

\* C24: on a matrix of identical copies, a call of meltEHH's integrate for
\* the allele the copies carry at the focal site computes the value 1 for
\* every window and puts 1 on every trace line, never returns on decay, and
\* returns 1 only with the window run off an end of the matrix.
C24_IdenticalCopiesStayAtOne ==
  (/\ drv = "meltEHH"
   /\ InCall
   /\ AllCopiesEqual
   /\ cs.ref = haplotypes[1].first[cs.snp + 1]) =>
    /\ cs.ret \in {-1, 1}
    /\ cs.nwin >= 1 => cs.curW = One
    /\ \A k \in 1..Len(cs.trace) : cs.trace[k].ehh = One
    /\ cs.ret = 1 => RanOff

\* a leftward call on identical copies that failed at the start of the
\* matrix after two windows
C24_Witness ==
  /\ drv = "meltEHH"
  /\ InCall
  /\ AllCopiesEqual
  /\ cs.ref = haplotypes[1].first[cs.snp + 1]
  /\ ~cs.dir
  /\ cs.ret = 1
  /\ cs.start < 0
  /\ cs.nwin >= 2
  /\ Len(cs.trace) >= 2

-----------------------------------------------------------------------------
(* Claims about the shared data of the parallel loop.                      *)

\* C25: while a worker of iHS's per-site loop has not left the loop, no step
\* changes the haplotype matrix, the position series, the frequency series
\* or the genetic map (its keys included).
C25_SharedInputsReadOnly ==
  [][(/\ drv = "iHS"
      /\ pc = "calc"
      /\ \E w \in Workers : wk[w].pc # "done")
     => UNCHANGED <<haplotypes, positions, afs, geneticMap>>]_vars

\* two workers are inside the loop over a matrix with a loaded map (every
\* call of gDist finds both positions), one has computed a site whose
\* integrals took their distances from the map, the other is about to
C25_Witness ==
  /\ drv = "iHS"
  /\ pc = "calc"
  /\ threads >= 2
  /\ geneticMap # EmptyMap
  /\ \E w \in Workers : wk[w].pc = "iter"
  /\ \E s \in DOMAIN computed :
       /\ RGt(computed[s].ihhR, Zero)
       /\ RLt(computed[s].ihhR, Rat(1, 1000))

-----------------------------------------------------------------------------
(* Claims about the indices of integrate.                                  *)

\* C26: in iHS and meltEHH, a call of integrate for an allele carried by two
\* or more copies at the focal site reads the position series only at
\* indices 0 .. maxl - 1.
C26_PositionReadsInRange ==
  (InCall /\ cs.denom >= 2) => ~cs.oob

-----------------------------------------------------------------------------
(* Claims about the group lists of hapLRT.                                 *)

\* C27: in hapLRT, for any target and background index lists, every index
\* put into the target and background group lists is smaller than the
\* number of rows of the haplotype matrix.
C27_GroupRowsInMatrix ==
  probe # NoProbe =>
    /\ \A k \in DOMAIN probe.iti : probe.iti[k] < Len(haplotypes)
    /\ \A k \in DOMAIN probe.ibi : probe.ibi[k] < Len(haplotypes)

-----------------------------------------------------------------------------
(* Claims about the print lock.                                            *)

\* C28: whenever a worker of iHS's per-site loop has acquired the print
\* lock, the lock has been initialised before.
C28_LockInitialisedBeforeUse ==
  (drv = "iHS" /\ pc = "calc" /\ lock # 0) => lockInit

\* C29: for two copies of equal length and a focal index inside them, the
\* extension loop of findLengths ends, the length it credits to both copies
\* lies between 0 and the length of the copies, and every character it reads
\* lies inside them.
C29_ExtensionEndsInsideCopies ==
  (probe # NoProbe /\ probe.fn = "findLengths") =>
    /\ ~probe.run.stuck
    /\ probe.lengths = <<probe.run.len, probe.run.len>>
    /\ 0 <= probe.run.len
    /\ probe.run.len <= MaxL(haplotypes)
    /\ 0 <= probe.run.lo
    /\ probe.run.hi <= MaxL(haplotypes) - 1

\* two equal copies of the greatest length compared around their second
\* site: the walk reaches the left end first and goes on to the right end
C29_Witness ==
  /\ probe # NoProbe
  /\ probe.fn = "findLengths"
  /\ MaxL(haplotypes) = MaxPairLen
  /\ probe.core = 1
  /\ probe.run.lo = 0
  /\ probe.run.hi = MaxPairLen - 1
  /\ probe.run.len = MaxPairLen

-----------------------------------------------------------------------------
(* Claims about the end of the parallel loop.                              *)

\* every site of the matrix calc was called on has been computed
AllSitesComputed == DOMAIN computed = 0..(Len(positions) - 1)

====
